---- MODULE Spec2Model ----
(***************************************************************************)
(* evalcache/lazy.py: lazy objects, their fingerprints and the three-tier  *)
(* resolution unlazy (local value -> cache -> evaluation).                 *)
(*                                                                         *)
(* Python objects are records [k, n, f]:                                   *)
(*   k = "none"  the None object                                           *)
(*   k = "int"   the integer n                                             *)
(*   k = "func"  the module-level function named f                         *)
(*   k = "node"  a reference to the LazyObject objs[n]                     *)
(* A byte stream fed to the hashlib accumulator is a sequence of tokens    *)
(* [c, d]: a character c, or (c = "#") the digest bytes of the stream d.   *)
(* The digest is taken as injective: a digest is identified with the       *)
(* stream it was computed from.                                            *)
(***************************************************************************)
EXTENDS Integers, Sequences, FiniteSets, TLC

VARIABLES
    objs,     \* the LazyObjects constructed so far, in order of construction
    cache,    \* Lazy.cache: the dict-like store, hex fingerprint -> value
    diag,     \* Lazy.diag
    counter,  \* the global counter the function tick increments
    calls,    \* calls[i]: how often the callable of objs[i] has been invoked
    writer,   \* writer[key]: the object whose unlazy wrote cache[key] last
    last      \* the last operation: its target, outcome, diagnostics, invocations

vars == <<objs, cache, diag, counter, calls, writer, last>>

\* Bounds of the model.
MaxNodes == 2
MaxCalls == 2

----------------------------------------------------------------------------
\* Python objects

None == [k |-> "none", n |-> 0, f |-> ""]
PyInt(i) == [k |-> "int", n |-> i, f |-> ""]
Func(name) == [k |-> "func", n |-> 0, f |-> name]
Node(i) == [k |-> "node", n |-> i, f |-> ""]

\* isinstance(arg, LazyObject)
IsLazyObject(o) == o.k = "node"

----------------------------------------------------------------------------
\* Byte streams

Ch(c) == [c |-> c, d |-> <<>>]
DigestBytes(h) == [c |-> "#", d |-> h]

Digit(i) == <<"0", "1", "2", "3", "4", "5", "6", "7", "8", "9">>[i + 1]

RECURSIVE Decimal(_)
Decimal(i) == IF i < 10 THEN <<Ch(Digit(i))>>
              ELSE Append(Decimal(i \div 10), Ch(Digit(i % 10)))

\* repr(obj).encode("utf-8") for the objects that take the fallback branch of
\* updatehash: integers and None.
repr(o) ==
    IF o.k = "int"
    THEN IF o.n < 0 THEN <<Ch("-")>> \o Decimal(-o.n) ELSE Decimal(o.n)
    ELSE <<Ch("N"), Ch("o"), Ch("n"), Ch("e")>>

\* repr of a one-character str key of a keyword mapping: 'x'
reprStr(s) == <<Ch("'"), Ch(s), Ch("'")>>

\* The functions a program hands to the library: __qualname__, __module__ and
\* the __file__ of that module, as the bytes updatehash_function feeds.
FuncNames == {"sub", "tick", "nil", "boom"}

qualname(name) ==
    CASE name = "sub" -> <<Ch("s"), Ch("u"), Ch("b")>>
      [] name = "tick" -> <<Ch("t"), Ch("i"), Ch("c"), Ch("k")>>
      [] name = "nil" -> <<Ch("n"), Ch("i"), Ch("l")>>
      [] OTHER -> <<Ch("b"), Ch("o"), Ch("o"), Ch("m")>>

modulename == <<Ch("m")>>
modulefile == <<Ch("m"), Ch("."), Ch("p"), Ch("y")>>

----------------------------------------------------------------------------
\* Fingerprints.  m is the stream fed so far to the hashlib accumulator.

\* m.digest() and m.hexdigest(): the digest is identified with its stream, the
\* hex text is the digest in another alphabet.
digest(m) == m
hexdigest(m) == [hex |-> m]

\* Variant: a resolved operand is fed as its value.
updatehash_LazyObject_value(m, o) ==
    IF objs[o.n].lazyvalue.k = "int" THEN m \o repr(objs[o.n].lazyvalue)
    ELSE Append(m, DigestBytes(objs[o.n].lazyhash))

\* m.update(obj.__lazyhash__)
updatehash_LazyObject(m, o) == Append(m, DigestBytes(objs[o.n].lazyhash))

updatehash_function(m, o) == m \o qualname(o.f) \o modulename \o modulefile

\* updatehash for an object that is no container: the hashfuncs table sends a
\* LazyObject and a function to their own routines, anything else is fed as
\* its repr.
updatehash(m, o) ==
    CASE o.k = "node" -> updatehash_LazyObject(m, o)
      [] o.k = "func" -> updatehash_function(m, o)
      [] OTHER -> m \o repr(o)

RECURSIVE updatehash_list(_, _)
updatehash_list(m, s) ==
    IF s = <<>> THEN m
    ELSE updatehash_list(updatehash(m, Head(s)), Tail(s))

ord(c) == CASE c = "x" -> 120 [] c = "y" -> 121 [] OTHER -> 122

\* sorted(obj.items()): the keys of a dict are distinct, so the order of the
\* pairs is the order of their keys.
RECURSIVE Insert(_, _)
Insert(s, e) ==
    IF s = <<>> THEN <<e>>
    ELSE IF ord(e.key) < ord(Head(s).key) THEN <<e>> \o s
    ELSE <<Head(s)>> \o Insert(Tail(s), e)

RECURSIVE sorted(_)
sorted(items) ==
    IF items = <<>> THEN <<>>
    ELSE Insert(sorted(Tail(items)), Head(items))

RECURSIVE updatehash_items(_, _)
updatehash_items(m, items) ==
    IF items = <<>> THEN m
    ELSE updatehash_items(updatehash(m \o reprStr(Head(items).key), Head(items).val),
                          Tail(items))

\* Variant: the pairs are fed in insertion order.
updatehash_dict_unsorted(m, kw) == updatehash_items(m, kw)

updatehash_dict(m, kw) == updatehash_items(m, sorted(kw))

\* The stream LazyObject.__init__ feeds for (generic, args, kwargs, value).
Fingerprint(generic, args, kwargs, value) ==
    LET m1 == IF generic # None THEN updatehash(<<>>, generic) ELSE <<>>
        m2 == IF Len(args) > 0 THEN updatehash_list(m1, args) ELSE m1
        m3 == IF Len(kwargs) > 0 THEN updatehash_dict(m2, kwargs) ELSE m2
        m4 == IF value # None THEN updatehash(m3, value) ELSE m3
    IN  m4

\* Lazy.__init__ defaults: encache = True, decache = True, diag = False.
LazyEncache == TRUE
LazyDecache == TRUE
LazyDiag == FALSE

\* LazyObject.__init__.  encache and decache are "None" (take the lazifier's
\* setting) or a BOOLEAN given as "T" / "F".
Flag(given, default) == IF given = "None" THEN default ELSE given = "T"

LazyObject(generic, args, kwargs, encache, decache, value) ==
    [generic |-> generic, args |-> args, kwargs |-> kwargs,
     encache |-> Flag(encache, LazyEncache),
     decache |-> Flag(decache, LazyDecache),
     lazyvalue |-> value,
     lazyhash |-> digest(Fingerprint(generic, args, kwargs, value)),
     lazyhexhash |-> hexdigest(Fingerprint(generic, args, kwargs, value))]

----------------------------------------------------------------------------
\* Resolution.  The routines thread the mutable state
\*   st = [objs, cache, counter, calls, writer, trace, out, inv,
\*         diag, fault, depth, maxdepth, steps, passed]
\* and return [st, ok, ret]: ok = FALSE is an exception on its way to the
\* caller.  trace records every diag(t) call, out what diag printed, inv every
\* invocation of a callable: [node, ok, val].  st.diag is Lazy.diag; st.fault
\* says which operations of the cache raise during this call ("none", "read",
\* "write"); depth is the number of unlazy frames on the stack, maxdepth the
\* largest it has been, steps the number of unlazy calls made; passed holds the
\* operand values the callables were invoked with.

Return(st, v) == [st |-> st, ok |-> TRUE, ret |-> v]
Raise(st) == [st |-> st, ok |-> FALSE, ret |-> None]

\* def diag(t): if diagnostic: print(t, obj.__lazyhexhash__)
Diag(st, i, t) ==
    LET ev == [node |-> i, tag |-> t, hex |-> st.objs[i].lazyhexhash]
    IN  [st EXCEPT !.trace = Append(@, [node |-> i, tag |-> t]),
                   !.out = IF st.diag THEN Append(@, ev) ELSE @]

HasKey(kw, key) == \E j \in 1..Len(kw) : kw[j].key = key
KwGet(kw, key) == kw[CHOOSE j \in 1..Len(kw) : kw[j].key = key].val

\* The callable of objs[i] returned v, or raised.
Returned(st, i, v) ==
    Return([st EXCEPT !.inv = Append(@, [node |-> i, ok |-> TRUE, val |-> v])], v)
Raised(st, i) ==
    Raise([st EXCEPT !.inv = Append(@, [node |-> i, ok |-> FALSE, val |-> None])])

\* The functions of the program under the library.
\*   def sub(x, y): return x - y
\*   def tick(*a, **k): global counter; counter += 1; return counter
\*   def nil(*a, **k): return None
\*   def boom(*a, **k): raise
\* func(*args, **kwargs) for the callable of objs[i].
Invoke(st, i, f, args, kwargs) ==
    IF f.k # "func" THEN Raise(st)
    ELSE
    LET st1 == [st EXCEPT !.calls[i] = @ + 1,
                          !.passed = @ \o args \o [j \in 1..Len(kwargs) |-> kwargs[j].val]]
    IN
    CASE f.f = "tick" ->
           Returned([st1 EXCEPT !.counter = @ + 1], i, PyInt(st1.counter + 1))
      [] f.f = "nil" -> Returned(st1, i, None)
      [] f.f = "boom" -> Raised(st1, i)
      [] OTHER ->
           LET bound == /\ Len(args) <= 2
                        /\ Len(args) + Len(kwargs) = 2
                        /\ (Len(args) < 1) => HasKey(kwargs, "x")
                        /\ (Len(args) < 2) => HasKey(kwargs, "y")
               x == IF Len(args) >= 1 THEN args[1] ELSE KwGet(kwargs, "x")
               y == IF Len(args) >= 2 THEN args[2] ELSE KwGet(kwargs, "y")
           IN  IF bound /\ x.k = "int" /\ y.k = "int"
               THEN Returned(st1, i, PyInt(x.n - y.n))
               ELSE Raised(st1, i)

RECURSIVE unlazy(_, _)
RECURSIVE tiers(_, _)
RECURSIVE lazydo(_, _)
RECURSIVE expand(_, _)
RECURSIVE expand_list(_, _, _)
RECURSIVE expand_dict(_, _, _)

\* expand for an object that is no container.
expand(st, arg) ==
    IF IsLazyObject(arg) THEN unlazy(st, arg.n) ELSE Return(st, arg)

\* [ expand(a) for a in arg ]
expand_list(st, s, acc) ==
    IF s = <<>> THEN Return(st, acc)
    ELSE LET r == expand(st, Head(s))
         IN  IF r.ok THEN expand_list(r.st, Tail(s), Append(acc, r.ret))
             ELSE Raise(r.st)

\* { expand(k) : expand(v) for k, v in arg.items() }: the keys are str.
expand_dict(st, items, acc) ==
    IF items = <<>> THEN Return(st, acc)
    ELSE LET r == expand(st, Head(items).val)
         IN  IF r.ok
             THEN expand_dict(r.st, Tail(items),
                              Append(acc, [key |-> Head(items).key, val |-> r.ret]))
             ELSE Raise(r.st)

\* Variant: an exception of the callable is swallowed and None returned.
lazydo_swallow(st, i) ==
    LET obj == st.objs[i]
        func == expand(st, obj.generic)
    IN  IF ~func.ok THEN Raise(func.st) ELSE
    LET args == expand_list(func.st, obj.args, <<>>)
    IN  IF ~args.ok THEN Raise(args.st) ELSE
    LET kwargs == expand_dict(args.st, obj.kwargs, <<>>)
    IN  IF ~kwargs.ok THEN Raise(kwargs.st) ELSE
    LET res == Invoke(kwargs.st, i, func.ret, args.ret, kwargs.ret)
    IN  IF ~res.ok THEN Return(res.st, None) ELSE expand(res.st, res.ret)

lazydo(st, i) ==
    LET obj == st.objs[i]
        func == expand(st, obj.generic)
    IN  IF ~func.ok THEN Raise(func.st) ELSE
    LET args == expand_list(func.st, obj.args, <<>>)
    IN  IF ~args.ok THEN Raise(args.st) ELSE
    LET kwargs == expand_dict(args.st, obj.kwargs, <<>>)
    IN  IF ~kwargs.ok THEN Raise(kwargs.st) ELSE
    LET res == Invoke(kwargs.st, i, func.ret, args.ret, kwargs.ret)
    IN  IF ~res.ok THEN Raise(res.st) ELSE expand(res.st, res.ret)

\* if (obj.__lazyvalue__ is not None): the local context is set.
local(st, i) == st.objs[i].lazyvalue # None

\* Variant: the first branch reports 'fget' for every object.
fget_plain(st, i) == Diag(st, i, "fget")

\* Branch one: diag('endp') for an endpoint object, diag('fget') for an object
\* executed earlier.
fget(st, i) == Diag(st, i, IF st.objs[i].generic = None THEN "endp" ELSE "fget")

\* Variants: __decache__ is not looked at; __decache__ is read negated.
cached_any(st, i) == st.objs[i].lazyhexhash \in DOMAIN st.cache
cached_negated(st, i) ==
    ~st.objs[i].decache /\ st.objs[i].lazyhexhash \in DOMAIN st.cache

\* elif obj.__decache__ and obj.__lazyhexhash__ in obj.__lazybase__.cache
cached(st, i) ==
    st.objs[i].decache /\ st.objs[i].lazyhexhash \in DOMAIN st.cache

\* Variant: the entry is found but the slot is not set.
load_noslot(st, i) == Diag(st, i, "load")

\* Branch two: diag('load'); obj.__lazyvalue__ = cache[obj.__lazyhexhash__]
load(st, i) ==
    [Diag(st, i, "load") EXCEPT
        !.objs[i].lazyvalue = st.cache[st.objs[i].lazyhexhash]]

\* Variant: the result is saved whatever __encache__ says.
store_always(st, i, v) ==
    LET st1 == [st EXCEPT !.objs[i].lazyvalue = v] IN
    [Diag(st1, i, "save") EXCEPT
        !.cache = (st1.objs[i].lazyhexhash :> st1.objs[i].lazyvalue) @@ @,
        !.writer = (st1.objs[i].lazyhexhash :> i) @@ @]

\* Variant: an entry the cache already holds is kept.
store_ifabsent(st, i, v) ==
    LET st1 == [st EXCEPT !.objs[i].lazyvalue = v] IN
    IF st1.objs[i].encache
    THEN [Diag(st1, i, "save") EXCEPT
            !.cache = @ @@ (st1.objs[i].lazyhexhash :> st1.objs[i].lazyvalue),
            !.writer = (st1.objs[i].lazyhexhash :> i) @@ @]
    ELSE Diag(st1, i, "eval")

\* Branch three after lazydo returned v: obj.__lazyvalue__ = v, then the save
\* into the cache if __encache__, diag('save') or diag('eval').
store(st, i, v) ==
    LET st1 == [st EXCEPT !.objs[i].lazyvalue = v] IN
    IF st1.objs[i].encache
    THEN [Diag(st1, i, "save") EXCEPT
            !.cache = (st1.objs[i].lazyhexhash :> st1.objs[i].lazyvalue) @@ @,
            !.writer = (st1.objs[i].lazyhexhash :> i) @@ @]
    ELSE Diag(st1, i, "eval")

\* Variant: a lookup that raises counts as a miss.
lookup_fallback(st, i) ==
    IF st.objs[i].decache /\ st.fault = "read" THEN "miss"
    ELSE IF cached(st, i) THEN "hit"
    ELSE "miss"

\* The lookup of line 222 and the read of line 225: "hit", "miss", or "error"
\* when the cache raises.  With __decache__ off the cache is not touched.
lookup(st, i) ==
    IF st.objs[i].decache /\ st.fault = "read" THEN "error"
    ELSE IF cached(st, i) THEN "hit"
    ELSE "miss"

\* The write of line 234 raises: the slot is set and diag('save') is out, the
\* cache is as it was.
putfails(st, i) == st.objs[i].encache /\ st.fault = "write"
unsaved(st, i, v) == Diag([st EXCEPT !.objs[i].lazyvalue = v], i, "save")

\* The three branches of unlazy.
tiers(st, i) ==
    IF local(st, i)
    THEN Return(fget(st, i), st.objs[i].lazyvalue)
    ELSE IF lookup(st, i) = "error" THEN Raise(st)
    ELSE IF lookup(st, i) = "hit"
    THEN Return(load(st, i), load(st, i).objs[i].lazyvalue)
    ELSE LET r == lazydo(st, i) IN
         IF ~r.ok THEN Raise(r.st)
         ELSE IF putfails(r.st, i) THEN Raise(unsaved(r.st, i, r.ret))
         ELSE Return(store(r.st, i, r.ret), store(r.st, i, r.ret).objs[i].lazyvalue)

\* A frame of unlazy is pushed for the call and popped when it returns or
\* raises.
enter(st) ==
    [st EXCEPT !.depth = @ + 1,
               !.maxdepth = IF st.depth + 1 > @ THEN st.depth + 1 ELSE @,
               !.steps = @ + 1]
leave(r) == [r EXCEPT !.st.depth = @ - 1]

unlazy(st, i) == leave(tiers(enter(st), i))

----------------------------------------------------------------------------
\* The operations of a program that uses the library.

N == Len(objs)

\* last when the last operation was no unlazy call.
NoCall == [op |-> "none", node |-> 0, ok |-> TRUE, ret |-> None,
           trace |-> <<>>, out |-> <<>>, inv |-> <<>>,
           fault |-> "none", maxdepth |-> 0, steps |-> 0, passed |-> <<>>]

\* The inputs the operations are tried with.
EndpointValues == {None, PyInt(1), Func("sub")} \cup {Node(j) : j \in 1..N}
Generics == {Func(f) : f \in FuncNames} \cup {Node(j) : j \in 1..N}
ArgChoices ==
    {<<>>, <<PyInt(1), PyInt(11)>>, <<PyInt(11), PyInt(1)>>}
    \cup {<<Node(j), Node(j)>> : j \in 1..N}
    \cup {<<Node(j), PyInt(1)>> : j \in 1..N}
KwargChoices ==
    {<<>>,
     <<[key |-> "x", val |-> PyInt(1)], [key |-> "y", val |-> PyInt(11)]>>,
     <<[key |-> "y", val |-> PyInt(11)], [key |-> "x", val |-> PyInt(1)]>>}
\* (encache, decache) as the constructor's callers pass them: LazyObject.__call__
\* and the operators pass neither, __getattr__ passes False for both.
FlagChoices == {<<"None", "None">>, <<"F", "F">>}

Init ==
    /\ objs = <<>>
    /\ cache = <<>>
    /\ diag = LazyDiag
    /\ counter = 0
    /\ calls = <<>>
    /\ writer = <<>>
    /\ last = NoCall

\* An endpoint that wraps a LazyObject hands it on as it is.  A LazyObject that
\* is called, or reaches the minus of sub, builds a further LazyObject
\* (LazyObject.__call__, __sub__): the graphs tried keep such an endpoint out
\* of the generic and away from sub, so that no LazyObject is built while one
\* is resolved.
Wraps(o) == IsLazyObject(o) /\ IsLazyObject(objs[o.n].lazyvalue)
Plain(g, a) ==
    /\ ~Wraps(g)
    /\ (\E j \in 1..Len(a) : Wraps(a[j])) => (g.k = "func" /\ g.f # "sub")

Constructed(o) ==
    /\ N < MaxNodes
    /\ objs' = Append(objs, o)
    /\ calls' = Append(calls, 0)
    /\ last' = NoCall
    /\ UNCHANGED <<cache, diag, counter, writer>>

\* Lazy.__call__(wrapped_object)
Lazy_call ==
    \E v \in EndpointValues :
        Constructed(LazyObject(None, <<>>, <<>>, "None", "None", v))

\* LazyObject(lazifier, generic, args, kwargs, encache, decache)
LazyObject_init ==
    \E g \in Generics, a \in ArgChoices, kw \in KwargChoices, fl \in FlagChoices :
        /\ (a = <<>> \/ kw = <<>>)
        /\ Plain(g, a)
        /\ Constructed(LazyObject(g, a, kw, fl[1], fl[2], None))

\* The state an unlazy call of the program starts from.
StateWith(o, c, n, k, w, d, f) ==
    [objs |-> o, cache |-> c, counter |-> n, calls |-> k, writer |-> w,
     trace |-> <<>>, out |-> <<>>, inv |-> <<>>,
     diag |-> d, fault |-> f, depth |-> 0, maxdepth |-> 0, steps |-> 0,
     passed |-> <<>>]
State(o, c, n, k, w) == StateWith(o, c, n, k, w, diag, "none")

\* unlazy(objs[i]), called by the program while the cache behaves as f says.
Resolve(i, f) ==
    LET r == unlazy(StateWith(objs, cache, counter, calls, writer, diag, f), i)
    IN  /\ \A j \in 1..N : calls[j] < MaxCalls
        /\ objs' = r.st.objs
        /\ cache' = r.st.cache
        /\ counter' = r.st.counter
        /\ calls' = r.st.calls
        /\ writer' = r.st.writer
        /\ last' = [op |-> "unlazy", node |-> i, ok |-> r.ok, ret |-> r.ret,
                    trace |-> r.st.trace, out |-> r.st.out, inv |-> r.st.inv,
                    fault |-> f, maxdepth |-> r.st.maxdepth, steps |-> r.st.steps,
                    passed |-> r.st.passed]
        /\ UNCHANGED diag

\* unlazy(objs[i]) with a cache that works.
Unlazy(i) == Resolve(i, "none")

\* unlazy(objs[i]) with a cache whose lookups, or whose writes, raise.
UnlazyFault(i) == \E f \in {"read", "write"} : Resolve(i, f)

\* encache(obj, sts) and decache(obj, sts)
encache(i, sts) ==
    /\ objs[i].lazyvalue = None
    /\ objs' = [objs EXCEPT ![i].encache = sts]
    /\ last' = NoCall
    /\ UNCHANGED <<cache, diag, counter, calls, writer>>

decache(i, sts) ==
    /\ objs[i].lazyvalue = None
    /\ objs' = [objs EXCEPT ![i].decache = sts]
    /\ last' = NoCall
    /\ UNCHANGED <<cache, diag, counter, calls, writer>>

Next ==
    \/ Lazy_call
    \/ LazyObject_init
    \/ \E i \in 1..N : Unlazy(i)
    \/ \E i \in 1..N, sts \in BOOLEAN : encache(i, sts)
    \/ \E i \in 1..N, sts \in BOOLEAN : decache(i, sts)

Spec == Init /\ [][Next]_vars

\* The program with a cache that may fail: nodes are built with the flags of
\* their constructor and resolved.
NextFault ==
    \/ Lazy_call
    \/ LazyObject_init
    \/ \E i \in 1..N : Unlazy(i)
    \/ \E i \in 1..N : UnlazyFault(i)

SpecFault == Init /\ [][NextFault]_vars

\* The program with Lazy(cache, diag = True).
InitDiag ==
    /\ objs = <<>>
    /\ cache = <<>>
    /\ diag = TRUE
    /\ counter = 0
    /\ calls = <<>>
    /\ writer = <<>>
    /\ last = NoCall

SpecDiag == InitDiag /\ [][Next]_vars

\* Construction alone: the fingerprints are fixed by it.
NextBuild == Lazy_call \/ LazyObject_init

SpecBuild == Init /\ [][NextBuild]_vars

----------------------------------------------------------------------------
\* Vocabulary of the properties.

IsCall(i) == objs[i].generic # None
Key(i) == objs[i].lazyhexhash
Unresolved(i) == objs[i].lazyvalue = None

\* The function a call node invokes, where construction fixes it: the generic
\* itself, or the function an endpoint generic wraps.
Callee(i) ==
    LET g == objs[i].generic IN
    IF g.k = "func" THEN g.f
    ELSE IF g.k = "node" /\ objs[g.n].generic = None /\ objs[g.n].lazyvalue.k = "func"
    THEN objs[g.n].lazyvalue.f
    ELSE "?"

\* How often the callable of objs[j] was invoked during the last operation.
InvCount(inv, j) == Cardinality({t \in 1..Len(inv) : inv[t].node = j})

\* The last operation was unlazy(objs[i]).
Called(i) == last.op = "unlazy" /\ last.node = i

\* Evaluation without a cache: every call node unresolved and with both policy
\* flags off, the store empty.
Fresh ==
    [j \in 1..N |->
        IF IsCall(j)
        THEN [objs[j] EXCEPT !.lazyvalue = None, !.encache = FALSE, !.decache = FALSE]
        ELSE objs[j]]
Direct(i) == unlazy(State(Fresh, <<>>, 0, [j \in 1..N |-> 0], <<>>), i)

\* Every callable of the program is deterministic and fails on no node.
AllPure ==
    \A j \in 1..N : /\ IsCall(j) => Callee(j) \in {"sub", "nil"}
                    /\ Direct(j).ok

----------------------------------------------------------------------------
\* C1 (cache transparency): with deterministic callables that do not fail, the
\* value unlazy returns for a call node is the value of evaluating it directly,
\* whatever earlier resolutions left in the cache.
C1_CacheTransparency ==
    \A i \in 1..N :
        (Called(i) /\ last.ok /\ IsCall(i) /\ AllPure) => last.ret = Direct(i).ret

\* C2 (at-most-once execution): whatever the policy flags and whatever value
\* the callable returns, unlazy calls on one node invoke its callable at most
\* once.  Stated for the callables that always return.
C2_AtMostOnce ==
    \A i \in 1..N : (IsCall(i) /\ Callee(i) \in {"tick", "nil"}) => calls[i] <= 1

\* C8 (order sensitivity): call(f, [a, b]) and call(f, [b, a]) with a # b have
\* different fingerprints.
C8_OrderSensitive ==
    \A i, j \in 1..N :
        (/\ IsCall(i) /\ IsCall(j)
         /\ objs[i].generic = objs[j].generic
         /\ objs[i].kwargs = <<>> /\ objs[j].kwargs = <<>>
         /\ Len(objs[i].args) = 2
         /\ objs[i].args[1] # objs[i].args[2]
         /\ objs[j].args = <<objs[i].args[2], objs[i].args[1]>>)
        => objs[i].lazyhash # objs[j].lazyhash

\* Two keyword mappings hold the same key/value pairs.
SameItems(kw1, kw2) ==
    /\ Len(kw1) = Len(kw2)
    /\ {kw1[t] : t \in 1..Len(kw1)} = {kw2[t] : t \in 1..Len(kw2)}

\* C9 (order insensitivity): two call nodes with the same callable, the same
\* positional operands and the same key/value pairs inserted in different
\* orders have the same fingerprint.
C9_OrderInsensitive ==
    \A i, j \in 1..N :
        (/\ IsCall(i) /\ IsCall(j)
         /\ objs[i].generic = objs[j].generic
         /\ objs[i].args = objs[j].args
         /\ SameItems(objs[i].kwargs, objs[j].kwargs))
        => /\ objs[i].lazyhash = objs[j].lazyhash
           /\ objs[i].lazyhexhash = objs[j].lazyhexhash

C9_Witness ==
    \E i, j \in 1..N :
        /\ IsCall(i) /\ IsCall(j)
        /\ objs[i].generic = objs[j].generic
        /\ objs[i].args = objs[j].args
        /\ SameItems(objs[i].kwargs, objs[j].kwargs)
        /\ objs[i].kwargs # objs[j].kwargs

\* C10 (nested resolution): one unlazy of an outer call node that names the
\* same inner call node twice invokes the inner callable once, not twice.
C10_NestedOnce ==
    \A i, j \in 1..N :
        (/\ Called(i) /\ IsCall(i) /\ IsCall(j)
         /\ objs[i].args = <<Node(j), Node(j)>>)
        => InvCount(last.inv, j) <= 1

----------------------------------------------------------------------------
\* Properties of one unlazy call, as properties of the step that makes it:
\* the unprimed variables are the state the call starts from.

\* The step is the program's call unlazy(objs[i]).
Calls(i) == last'.op = "unlazy" /\ last'.node = i

\* The value the callable of objs[i] returned during the operation op.
Output(op, i) == op.inv[CHOOSE t \in 1..Len(op.inv) : op.inv[t].node = i].val

\* The callable of objs[j] raised during the operation op: an exception ends
\* the operation, so it is the last invocation.
RaisedIn(op, j) ==
    /\ op.inv # <<>>
    /\ op.inv[Len(op.inv)].node = j
    /\ ~op.inv[Len(op.inv)].ok

HasEvent(op, i, tag) ==
    \E t \in 1..Len(op.trace) : op.trace[t] = [node |-> i, tag |-> tag]

\* C3 (execution failure): when the callable of a node raises during unlazy,
\* the caller gets the failure, the node's value slot is still empty, the
\* cache entry under the node's fingerprint is as it was before the call, and
\* another unlazy of that node invokes the callable again.
C3_ExecutionFailure ==
    [][\A i, j \in 1..N :
        (Calls(i) /\ RaisedIn(last', j))
        => /\ ~last'.ok
           /\ objs'[j].lazyvalue = None
           /\ objs'[i].lazyvalue = objs[i].lazyvalue
           /\ Key(j) \in DOMAIN cache' =>
                (Key(j) \in DOMAIN cache /\ cache'[Key(j)] = cache[Key(j)])
           /\ InvCount(unlazy(State(objs', cache', counter', calls', writer'), j).st.inv,
                       j) = 1]_vars

C3_Witness ==
    \E i \in 1..N :
        /\ Called(i) /\ RaisedIn(last, i) /\ ~last.ok
        /\ calls[i] = 2
        /\ Unresolved(i)
        /\ Key(i) \notin DOMAIN cache

\* C4 (read policy): unlazy of an unresolved call node whose __decache__ is off
\* does not load the entry the cache holds under its fingerprint: it invokes
\* the callable and returns what the callable returned.
C4_ReadPolicy ==
    [][\A i \in 1..N :
        (/\ Calls(i) /\ IsCall(i) /\ Unresolved(i)
         /\ ~objs[i].decache /\ Key(i) \in DOMAIN cache)
        => /\ ~HasEvent(last', i, "load")
           /\ last'.ok => /\ InvCount(last'.inv, i) = 1
                          /\ last'.ret = Output(last', i)
                          /\ objs'[i].lazyvalue = Output(last', i)]_vars

\* The stale entry is still there (the node does not write), and differs from
\* the value returned.
C4_Witness ==
    \E i \in 1..N :
        /\ Called(i) /\ last.ok /\ IsCall(i)
        /\ ~objs[i].decache /\ ~objs[i].encache
        /\ Key(i) \in DOMAIN cache
        /\ InvCount(last.inv, i) = 1
        /\ cache[Key(i)] # last.ret

\* C5 (write policy): unlazy of a call node whose __encache__ is off, with no
\* entry under its fingerprint before the call, returns the callable's result
\* and leaves the cache without an entry under that fingerprint.
C5_WritePolicy ==
    [][\A i \in 1..N :
        (/\ Calls(i) /\ IsCall(i)
         /\ ~objs[i].encache /\ Key(i) \notin DOMAIN cache)
        => /\ Key(i) \notin DOMAIN cache'
           /\ (last'.ok /\ Unresolved(i))
                => /\ InvCount(last'.inv, i) = 1
                   /\ last'.ret = Output(last', i)]_vars

C5_Witness ==
    \E i \in 1..N :
        /\ Called(i) /\ last.ok /\ IsCall(i)
        /\ ~objs[i].encache
        /\ HasEvent(last, i, "eval")
        /\ last.ret # None
        /\ Key(i) \notin DOMAIN cache

\* C6 (cache hit): unlazy of a node with an empty slot, __decache__ on and an
\* entry under its fingerprint loads that entry into the slot and returns it;
\* no callable is invoked, no operand is resolved, the cache is unchanged.
C6_CacheHit ==
    [][\A i \in 1..N :
        (/\ Calls(i) /\ Unresolved(i)
         /\ objs[i].decache /\ Key(i) \in DOMAIN cache)
        => /\ last'.ok
           /\ last'.ret = cache[Key(i)]
           /\ objs' = [objs EXCEPT ![i].lazyvalue = cache[Key(i)]]
           /\ last'.inv = <<>>
           /\ last'.trace = <<[node |-> i, tag |-> "load"]>>
           /\ calls' = calls
           /\ cache' = cache]_vars

\* A call node with a node operand was loaded.
C6_Witness ==
    \E i \in 1..N :
        /\ Called(i) /\ IsCall(i)
        /\ last.trace = <<[node |-> i, tag |-> "load"]>>
        /\ \E t \in 1..Len(objs[i].args) : IsLazyObject(objs[i].args[t])
        /\ last.inv = <<>>
        /\ objs[i].lazyvalue = last.ret

\* C7 (same fingerprint, same entry): of two distinct call nodes with the same
\* fingerprint, m resolved by execution with __encache__ on (the entry is the
\* one m wrote), unlazy of the other, n, unresolved and with __decache__ on,
\* does not invoke n's callable and returns the value m stored.
C7_SameEntry ==
    [][\A m, n \in 1..N :
        (/\ Calls(n) /\ m # n /\ IsCall(m) /\ IsCall(n)
         /\ Key(m) = Key(n)
         /\ Key(m) \in DOMAIN writer /\ writer[Key(m)] = m
         /\ Unresolved(n) /\ objs[n].decache)
        => /\ last'.ok
           /\ InvCount(last'.inv, n) = 0
           /\ calls'[n] = calls[n]
           /\ last'.ret = objs[m].lazyvalue
           /\ objs'[n].lazyvalue = objs[m].lazyvalue]_vars

C7_Witness ==
    \E m, n \in 1..N :
        /\ Called(n) /\ m # n /\ IsCall(m) /\ IsCall(n)
        /\ Key(m) = Key(n)
        /\ Key(m) \in DOMAIN writer /\ writer[Key(m)] = m
        /\ calls[m] = 1 /\ calls[n] = 0
        /\ last.ret = objs[m].lazyvalue
        /\ last.ret # None

\* The slot of objs[i] has been set: it holds a value, or objs[i] wrote the
\* entry under its fingerprint, which it does after setting the slot.
Populated(i) ==
    \/ ~Unresolved(i)
    \/ (IsCall(i) /\ Key(i) \in DOMAIN writer /\ writer[Key(i)] = i)

\* The operation op took the value from the slot of objs[i] and did nothing
\* else.
LocalOnly(op, i) ==
    /\ op.inv = <<>>
    /\ Len(op.trace) = 1
    /\ op.trace[1].node = i
    /\ op.trace[1].tag \in {"endp", "fget"}

\* C11 (write-once slot): once the slot of a node has been set, no operation
\* changes it, and every unlazy of that node returns the slot's value without
\* looking into the cache, invoking a callable or changing the cache.
C11_WriteOnce ==
    [][\A i \in 1..N :
        Populated(i)
        => /\ objs'[i].lazyvalue = objs[i].lazyvalue
           /\ Calls(i) => /\ last'.ok
                          /\ last'.ret = objs[i].lazyvalue
                          /\ LocalOnly(last', i)
                          /\ cache' = cache]_vars

\* C12 (endpoint resolution): the slot of every endpoint node is set at
\* construction, and unlazy of it returns the wrapped value: one 'endp' event,
\* no callable invoked, the cache neither read nor written.
C12_Endpoint ==
    \A i \in 1..N :
        (~IsCall(i) /\ Called(i))
        => /\ last.ok
           /\ last.ret = objs[i].lazyvalue
           /\ last.inv = <<>>
           /\ last.trace = <<[node |-> i, tag |-> "endp"]>>

\* The operation op ended in the third branch of unlazy(objs[i]).
Executed(op, i) ==
    /\ op.trace # <<>>
    /\ op.trace[Len(op.trace)].node = i
    /\ op.trace[Len(op.trace)].tag \in {"save", "eval"}

\* C13 (persist on execute): when unlazy executes a node whose __encache__ is
\* on and returns, the cache maps the node's hex fingerprint to the value
\* returned, whatever entry was there, and the slot holds that value.
C13_PersistOnExecute ==
    \A i \in 1..N :
        (Called(i) /\ last.ok /\ Executed(last, i) /\ objs[i].encache)
        => /\ Key(i) \in DOMAIN cache
           /\ cache[Key(i)] = last.ret
           /\ objs[i].lazyvalue = last.ret

\* The entry written replaced the one another node of the same fingerprint had
\* stored.
C13_Witness ==
    \E i, m \in 1..N :
        /\ Called(i) /\ last.ok /\ Executed(last, i) /\ objs[i].encache
        /\ m # i /\ Key(m) = Key(i)
        /\ ~Unresolved(m)
        /\ objs[m].lazyvalue # last.ret
        /\ cache[Key(i)] = last.ret
        /\ last.ret # None

\* C14 (never a pending node): the value unlazy returns, and every operand
\* value a callable is invoked with, is no LazyObject.  The values of the
\* model are no containers.
C14_NeverPending ==
    (last.op = "unlazy" /\ last.ok)
    => /\ ~IsLazyObject(last.ret)
       /\ \A t \in 1..Len(last.passed) : ~IsLazyObject(last.passed[t])

\* The fingerprint of objs[i] is the one its constructor would compute now.
Structural(i) ==
    LET value == IF IsCall(i) THEN None ELSE objs[i].lazyvalue
        m == Fingerprint(objs[i].generic, objs[i].args, objs[i].kwargs, value)
    IN  /\ objs[i].lazyhash = digest(m)
        /\ objs[i].lazyhexhash = hexdigest(m)

\* C15 (fingerprints fixed at construction): no operation changes the digest
\* or the hex fingerprint of a node; the fingerprint of a node over node
\* operands is the same whether the operands are resolved or not, so that it
\* is at any time the one construction would compute; construction changes
\* no slot, no cache entry and invokes nothing.
C15_FixedFingerprint ==
    [][/\ \A i \in 1..N :
            /\ objs'[i].lazyhash = objs[i].lazyhash
            /\ objs'[i].lazyhexhash = objs[i].lazyhexhash
            /\ Structural(i)
       /\ Len(objs') > N =>
            /\ \A i \in 1..N : objs'[i] = objs[i]
            /\ cache' = cache
            /\ counter' = counter
            /\ calls' = Append(calls, 0)]_vars

\* An outer node was built over an unresolved operand that has been executed
\* since.
C15_Witness ==
    \E i, j \in 1..N :
        /\ IsCall(i) /\ IsCall(j)
        /\ \E t \in 1..Len(objs[i].args) : objs[i].args[t] = Node(j)
        /\ Called(j) /\ last.ok
        /\ InvCount(last.inv, j) = 1 /\ calls[j] = 1
        /\ ~objs[j].decache
        /\ objs[j].lazyvalue = PyInt(1)
        /\ Unresolved(i)

\* The branch unlazy(objs[i]) takes from the current state, as the tag it
\* reports.
Tier(i) ==
    IF ~Unresolved(i) THEN (IF IsCall(i) THEN "fget" ELSE "endp")
    ELSE IF objs[i].decache /\ Key(i) \in DOMAIN cache THEN "load"
    ELSE IF objs[i].encache THEN "save"
    ELSE "eval"

\* The events printed for objs[i] during the operation op.
EventsOf(op, i) == {t \in 1..Len(op.out) : op.out[t].node = i}

\* C16 (diagnostics): with diag on, an unlazy call that returns prints exactly
\* one event for the node it was called on, with that node's hex fingerprint
\* and the tag of the branch taken ('endp', 'fget', 'load', 'eval', 'save');
\* and the call returns or raises the same, and leaves the same slots, cache
\* and invocation counts, as it would with diag off, where nothing is printed.
C16_Diagnostics ==
    [][\A i \in 1..N :
        Calls(i)
        => LET off == unlazy(StateWith(objs, cache, counter, calls, writer,
                                       FALSE, "none"), i)
           IN  /\ off.ok = last'.ok
               /\ off.ret = last'.ret
               /\ off.st.objs = objs'
               /\ off.st.cache = cache'
               /\ off.st.calls = calls'
               /\ off.st.out = <<>>
               /\ last'.ok
                    => /\ Cardinality(EventsOf(last', i)) = 1
                       /\ last'.out[Len(last'.out)] =
                            [node |-> i, tag |-> Tier(i), hex |-> Key(i)]]_vars

\* The call printed events for operands before the one of its own node.
C16_Witness ==
    \E i \in 1..N :
        /\ diag
        /\ Called(i) /\ last.ok
        /\ Len(last.out) = 3
        /\ last.out[3] = [node |-> i, tag |-> "save", hex |-> Key(i)]
        /\ last.out[1].node # i

\* C17 (cache read failure): when the lookups of the cache raise, unlazy of an
\* unresolved node with __decache__ on raises to the caller; no node that is
\* unresolved with __decache__ on has its callable invoked or its slot set;
\* the cache is as it was.
C17_ReadFailure ==
    [][(last'.op = "unlazy" /\ last'.fault = "read")
       => /\ \A i \in 1..N :
                (Unresolved(i) /\ objs[i].decache)
                => /\ Calls(i) => (~last'.ok /\ last'.inv = <<>> /\ objs' = objs)
                   /\ InvCount(last'.inv, i) = 0
                   /\ calls'[i] = calls[i]
                   /\ objs'[i].lazyvalue = None
          /\ cache' = cache]_vars

\* The entry is in the cache, it could not be read, and the node was not
\* executed instead.
C17_Witness ==
    \E i \in 1..N :
        /\ Called(i) /\ last.fault = "read" /\ ~last.ok
        /\ IsCall(i) /\ Callee(i) = "tick"
        /\ Unresolved(i) /\ objs[i].decache
        /\ Key(i) \in DOMAIN cache
        /\ calls[i] = 0

\* The nodes objs[i] refers to, and the depth of the graph under objs[i].
Refs(i) ==
    {j \in 1..N :
        \/ objs[i].generic = Node(j)
        \/ \E t \in 1..Len(objs[i].args) : objs[i].args[t] = Node(j)
        \/ \E t \in 1..Len(objs[i].kwargs) : objs[i].kwargs[t].val = Node(j)}

RECURSIVE Reach(_)
Reach(i) == {i} \cup UNION {Reach(j) : j \in Refs(i)}

Max(S) == IF S = {} THEN 0 ELSE CHOOSE x \in S : \A y \in S : y <= x

RECURSIVE GraphDepth(_)
GraphDepth(i) == 1 + Max({GraphDepth(j) : j \in Refs(i)})

\* Every callable in the graph under objs[i] returns a plain value.
ReturnsPlain(i) ==
    \A j \in Reach(i) : IsCall(j) => Callee(j) \in {"tick", "nil"}

\* C18 (termination): unlazy of a node of a finite acyclic graph whose
\* callables return plain values, with a cache that works, returns; the stack
\* of unlazy frames is never deeper than the graph; on return the slot holds
\* the value returned.
C18_Termination ==
    \A i \in 1..N :
        (Called(i) /\ last.fault = "none" /\ ReturnsPlain(i))
        => /\ last.ok
           /\ last.maxdepth <= GraphDepth(i)
           /\ objs[i].lazyvalue = last.ret

\* The write of the cache failed after the callable of objs[i] returned.
WriteFailed(op, i) ==
    /\ op.op = "unlazy" /\ op.node = i /\ op.fault = "write" /\ ~op.ok
    /\ op.trace # <<>>
    /\ op.trace[Len(op.trace)] = [node |-> i, tag |-> "save"]

\* C19 (cache write failure): when the callable of a node with __encache__ on
\* returned and the write of the cache raised, the caller got the failure and
\* the slot holds the computed value; the next unlazy of that node returns the
\* slot, does not invoke the callable and does not write the cache.
C19_WriteFailure ==
    [][\A i \in 1..N :
        WriteFailed(last, i)
        => /\ objs[i].lazyvalue = Output(last, i)
           /\ Calls(i) => /\ last'.ok
                          /\ last'.ret = objs[i].lazyvalue
                          /\ InvCount(last'.inv, i) = 0
                          /\ ~HasEvent(last', i, "save")
                          /\ cache' = cache]_vars

\* unlazy(objs[j]) returned during the operation op.
ResolvedIn(op, j) == \E t \in 1..Len(op.trace) : op.trace[t].node = j

\* C20 (partial progress): when unlazy of a call node failed after operand
\* nodes had been resolved in that call, the operands keep slot and cache
\* entry, and the next unlazy of the outer node invokes the callable of none
\* of them.
C20_PartialProgress ==
    [][\A i, j \in 1..N :
        (/\ last.op = "unlazy" /\ last.node = i /\ ~last.ok /\ last.fault = "none"
         /\ IsCall(i) /\ j # i /\ ResolvedIn(last, j))
        => /\ objs'[j].lazyvalue = objs[j].lazyvalue
           /\ Key(j) \in DOMAIN cache => Key(j) \in DOMAIN cache'
           /\ Calls(i) => InvCount(last'.inv, j) = 0]_vars

====
